---- MODULE Spec2Model ----
(***************************************************************************)
(* gpd-plot, anim_map.py: the animated map of geotagged points.            *)
(*                                                                         *)
(* plot_anim loads the foreground records (timestamps floored to the day   *)
(* and sorted), the optional background records (image dates truncated to  *)
(* the month), writes the per-year date-range summary, builds the daily    *)
(* timeline, and then drives the closure update(frame), either once for    *)
(* the terminal frame or through matplotlib's FuncAnimation.               *)
(*                                                                         *)
(* A timestamp is a day number (days since 1970-01-01), which is what      *)
(* pandas holds after .dt.floor('D').  A fraction (an opacity factor) is a *)
(* pair <<numerator, denominator>> with a positive denominator.            *)
(***************************************************************************)
EXTENDS Integers, Sequences, FiniteSets

VARIABLES
    pc,                \* position in plot_anim
    run_mode,          \* "final_frame" | "show" | "save"  (args.final_frame, args.mode)
    df,                \* foreground timestamps, floored to the day, sorted
    bg_data,           \* background imageDate column, truncated to the month
    date_ranges_json,  \* the summary written to DATE_RANGES.json
    date_range,        \* the timeline
    all_points,        \* accumulated foreground rows (a row stands for its position)
    all_dates,         \* their timestamps
    all_years,         \* their years
    bg_alpha,          \* the bg_gdf['alpha'] column
    bg_sc,             \* what the background scatter holds
    sc,                \* what the foreground scatter holds
    text,              \* the date label
    fade_in_alphas,    \* update's local of the last call (<<>> when not computed)
    fade_out_alphas,   \* update's local of the last call (<<>> when not computed)
    cursor,            \* FuncAnimation's next frame of the running pass
    passes,            \* passes over the timeline FuncAnimation has completed
    calls,             \* number of update calls so far
    frame,             \* frame index of the last update call, -1 before the first
    in_order,          \* the calls so far were update(0), update(1), ..., update(frame)
    prev_frame,        \* frame index of the call before the last one, -1 if none
    prev_points,       \* all_points before the last call
    last_call          \* "none" | "init" | "update": what drew last

vars == <<pc, run_mode, df, bg_data, date_ranges_json, date_range, all_points,
          all_dates, all_years, bg_alpha, bg_sc, sc, text, fade_in_alphas,
          fade_out_alphas, cursor, passes, calls, frame, in_order, prev_frame,
          prev_points, last_call>>

---------------------------------------------------------------------------
(* Bounds of the model. *)

MaxRecords == 2
MaxBg == 1
MaxPasses == 2
MaxCalls == 3
MaxSummaryRecords == 4

---------------------------------------------------------------------------
(* The proleptic Gregorian calendar, as pandas Timestamps use it. *)

IsLeap(y) == (y % 4 = 0 /\ y % 100 # 0) \/ y % 400 = 0

DaysInMonth(y, m) ==
    IF m \in {1, 3, 5, 7, 8, 10, 12} THEN 31
    ELSE IF m \in {4, 6, 9, 11} THEN 30
    ELSE IF IsLeap(y) THEN 29 ELSE 28

\* Day number of the civil date y-m-d (days since 1970-01-01).
DaysFromCivil(y, m, d) ==
    LET yy  == IF m <= 2 THEN y - 1 ELSE y
        era == yy \div 400
        yoe == yy - era * 400
        mp  == IF m > 2 THEN m - 3 ELSE m + 9
        doy == (153 * mp + 2) \div 5 + d - 1
        doe == yoe * 365 + yoe \div 4 - yoe \div 100 + doy
    IN  era * 146097 + doe - 719468

\* The civil date <<y, m, d>> of a day number.
CivilFromDays(z) ==
    LET zz  == z + 719468
        era == zz \div 146097
        doe == zz - era * 146097
        yoe == (doe - doe \div 1460 + doe \div 36524 - doe \div 146096) \div 365
        doy == doe - (365 * yoe + yoe \div 4 - yoe \div 100)
        mp  == (5 * doy + 2) \div 153
        d   == doy - (153 * mp + 2) \div 5 + 1
        m   == IF mp < 10 THEN mp + 3 ELSE mp - 9
        y   == yoe + era * 400 + (IF m <= 2 THEN 1 ELSE 0)
    IN  <<y, m, d>>

Year(t)  == CivilFromDays(t)[1]
Month(t) == CivilFromDays(t)[2]
Day(t)   == CivilFromDays(t)[3]

\* .dt.to_period('M'): the calendar month, as months since year 0.
ToPeriodM(t) == Year(t) * 12 + (Month(t) - 1)

\* Timestamp.replace(day=1), and Period('M').to_timestamp().
MonthStart(t) == DaysFromCivil(Year(t), Month(t), 1)

\* t + pd.offsets.MonthEnd(1): the next month end strictly after t.
PlusMonthEnd(t) ==
    LET last == DaysFromCivil(Year(t), Month(t), DaysInMonth(Year(t), Month(t)))
    IN  IF t < last THEN last
        ELSE LET n == last + 1
             IN  DaysFromCivil(Year(n), Month(n), DaysInMonth(Year(n), Month(n)))

\* t - pd.offsets.MonthBegin(1): the previous month begin strictly before t.
MinusMonthBegin(t) ==
    IF Day(t) > 1 THEN MonthStart(t) ELSE MonthStart(t - 1)

\* .dt.floor('D') of a time given in Unix seconds.
FloorD(seconds) == seconds \div 86400

Digit(n) == <<"0", "1", "2", "3", "4", "5", "6", "7", "8", "9">>[n + 1]

Pad2(n) == Digit((n \div 10) % 10) \o Digit(n % 10)

\* str(year) of a four-digit year.
StrYear(y) ==
    Digit((y \div 1000) % 10) \o Digit((y \div 100) % 10) \o Pad2(y % 100)

\* strftime("%Y-%m-%d")
Strftime(t) == StrYear(Year(t)) \o "-" \o Pad2(Month(t)) \o "-" \o Pad2(Day(t))

---------------------------------------------------------------------------
(* Fractions. *)

RatLE(a, b) == a[1] * b[2] <= b[1] * a[2]
RatEq(a, b) == a[1] * b[2] = b[1] * a[2]
RatMul(a, b) == <<a[1] * b[1], a[2] * b[2]>>
OneMinus(a) == <<a[2] - a[1], a[2]>>

\* Series.clip(lower, upper)
Clip(x, lower, upper) ==
    IF RatLE(x, lower) THEN lower
    ELSE IF RatLE(upper, x) THEN upper
    ELSE x

---------------------------------------------------------------------------
(* Helpers on sequences. *)

Range(s) == {s[i] : i \in DOMAIN s}

Indices(s) == [i \in 1..Len(s) |-> i]

SeqMin(s) == CHOOSE x \in Range(s) : \A y \in Range(s) : x <= y
SeqMax(s) == CHOOSE x \in Range(s) : \A y \in Range(s) : y <= x

Min2(a, b) == IF a <= b THEN a ELSE b
Max2(a, b) == IF a >= b THEN a ELSE b

---------------------------------------------------------------------------
(* Loading: the foreground timestamps and the background image dates. *)

Insert(s, x) ==
    LET k == Cardinality({i \in DOMAIN s : s[i] <= x})
    IN  SubSeq(s, 1, k) \o <<x>> \o SubSeq(s, k + 1, Len(s))

RECURSIVE SortValues(_)
\* df.sort_values('timestamp')
SortValues(s) ==
    IF s = <<>> THEN <<>>
    ELSE Insert(SortValues(SubSeq(s, 1, Len(s) - 1)), s[Len(s)])

\* pd.to_datetime(df['timestamp'], unit='s').dt.floor('D'), then the sort.
LoadForeground(raw) == SortValues([i \in 1..Len(raw) |-> FloorD(raw[i])])

\* bg_data['imageDate'].dt.to_period('M').dt.to_timestamp()
LoadBackground(raw) == [i \in 1..Len(raw) |-> MonthStart(raw[i])]

\* A time of day on a civil date, in Unix seconds.
At(y, m, d, seconds) == DaysFromCivil(y, m, d) * 86400 + seconds

\* Input families: foreground timestamps (Unix seconds) and background image
\* dates (day numbers) the runs are drawn from.
FgRaw2015 == {At(2015, 6, 1, 0), At(2015, 6, 2, 49500), At(2015, 6, 3, 86399)}
BgRaw2015 == {DaysFromCivil(2014, 11, 1), DaysFromCivil(2015, 5, 17),
              DaysFromCivil(2015, 6, 1), DaysFromCivil(2015, 7, 20)}
FgRaw2019 == {At(2019, 7, 15, 28800)}
BgRaw2019 == {DaysFromCivil(2019, 7, 1)}
FgRawSummary == {At(2018, 1, 5, 0), At(2018, 11, 20, 3600), At(2019, 12, 31, 86399),
                 At(2020, 1, 1, 0), At(2020, 3, 1, 43200), At(2020, 3, 2, 7)}
FgRawReentrant == {At(2015, 6, 29, 0), At(2015, 6, 30, 600), At(2015, 7, 1, 86399)}
BgRawReentrant == {DaysFromCivil(2015, 7, 1)}

RunModes == {"final_frame", "show", "save"}

SeqsUpTo(S, lo, hi) == UNION {[1..n -> S] : n \in lo..hi}

MIN_FADE == <<1, 10>>
MIN_OPACITY == <<1, 5>>
DECAY_YEARS == 5

\* The scatters as ax.scatter creates them.
InitialBgSc ==
    [offsets |-> <<>>, array |-> <<>>, alpha |-> <<<<3, 10>>>>, alpha_is_array |-> FALSE]
InitialSc ==
    [offsets |-> <<>>, array |-> <<>>, alpha |-> <<>>, alpha_is_array |-> FALSE]

\* The state once the data is loaded and the closures are defined.
InitFrom(FgRaw, maxFg, BgRaw, maxBg, Modes) ==
    \E raw \in SeqsUpTo(FgRaw, 1, maxFg), braw \in SeqsUpTo(BgRaw, 0, maxBg),
       mode \in Modes :
        /\ pc = "loaded"
        /\ run_mode = mode
        /\ df = LoadForeground(raw)
        /\ bg_data = LoadBackground(braw)
        /\ date_ranges_json = [k \in {} |-> <<>>]
        /\ date_range = <<>>
        /\ all_points = <<>>
        /\ all_dates = <<>>
        /\ all_years = <<>>
        /\ bg_alpha = [i \in 1..Len(braw) |-> <<0, 1>>]
        /\ bg_sc = InitialBgSc
        /\ sc = InitialSc
        /\ text = ""
        /\ fade_in_alphas = <<>>
        /\ fade_out_alphas = <<>>
        /\ cursor = 0
        /\ passes = 0
        /\ calls = 0
        /\ frame = -1
        /\ in_order = TRUE
        /\ prev_frame = -1
        /\ prev_points = <<>>
        /\ last_call = "none"

Init ==
    \/ InitFrom(FgRaw2015, MaxRecords, BgRaw2015, MaxBg, RunModes)
    \/ InitFrom(FgRaw2019, MaxRecords, BgRaw2019, MaxBg, RunModes)

InitSummary == InitFrom(FgRawSummary, MaxSummaryRecords, BgRaw2019, MaxBg, RunModes)

InitReentrant == InitFrom(FgRawReentrant, MaxRecords, BgRawReentrant, MaxBg, {"show"})

---------------------------------------------------------------------------
(* The per-year date-range summary. *)

YearsOf(ts) == {Year(ts[i]) : i \in DOMAIN ts}

\* The earliest timestamp of the whole column, whatever the year.
YearMinOfAll(ts, y) == SeqMin(ts)

\* df.groupby(year)['timestamp'].agg(['min', 'max']): the row of one year.
YearMin(ts, y) == CHOOSE t \in Range(ts) : Year(t) = y /\ \A u \in Range(ts) : Year(u) = y => t <= u
YearMax(ts, y) == CHOOSE t \in Range(ts) : Year(t) = y /\ \A u \in Range(ts) : Year(u) = y => u <= t

YearOfKey(ts, k) == CHOOSE y \in YearsOf(ts) : StrYear(y) = k

DateRangesJson(ts) ==
    [k \in {StrYear(y) : y \in YearsOf(ts)} |->
        [earliest |-> Strftime(YearMin(ts, YearOfKey(ts, k))),
         latest   |-> Strftime(YearMax(ts, YearOfKey(ts, k)))]]

WriteDateRanges ==
    /\ pc = "loaded"
    /\ date_ranges_json' = DateRangesJson(df)
    /\ pc' = "ranges"
    /\ UNCHANGED <<run_mode, df, bg_data, date_range, all_points, all_dates, all_years,
                   bg_alpha, bg_sc, sc, text, fade_in_alphas, fade_out_alphas, cursor,
                   passes, calls, frame, in_order, prev_frame, prev_points,
                   last_call>>

---------------------------------------------------------------------------
(* The timeline. *)

\* pd.date_range(start, end, freq='D')
PdDateRange(start, end) == [i \in 1..(end - start + 1) |-> start + (i - 1)]

\* The range of the foreground alone, also when background data is present.
TimelineForegroundOnly(fg, bg) == PdDateRange(SeqMin(fg), SeqMax(fg))

Timeline(fg, bg) ==
    IF bg = <<>> THEN PdDateRange(SeqMin(fg), SeqMax(fg))
    ELSE PdDateRange(Min2(SeqMin(fg), SeqMin(bg)), Max2(SeqMax(fg), SeqMax(bg)))

BuildTimeline ==
    /\ pc = "ranges"
    /\ date_range' = Timeline(df, bg_data)
    /\ pc' = "ready"
    /\ UNCHANGED <<run_mode, df, bg_data, date_ranges_json, all_points, all_dates,
                   all_years, bg_alpha, bg_sc, sc, text, fade_in_alphas,
                   fade_out_alphas, cursor, passes, calls, frame, in_order,
                   prev_frame, prev_points, last_call>>

---------------------------------------------------------------------------
(* update(frame): the background layer. *)

MonthProgress(current_time) ==
    LET month_start == MonthStart(current_time)
        next_month  == PlusMonthEnd(month_start)
    IN  <<current_time - month_start, next_month - month_start>>

\* The bg_gdf['alpha'] column after the two masked assignments.
BgAlphaColumn(current_time, alpha) ==
    [i \in 1..Len(bg_data) |->
        IF ToPeriodM(bg_data[i]) = ToPeriodM(MinusMonthBegin(current_time)) THEN <<1, 1>>
        ELSE IF ToPeriodM(bg_data[i]) = ToPeriodM(current_time)
             THEN MonthProgress(current_time)
        ELSE alpha[i]]

\* bg_gdf[mask_visible]: the rows whose image month has arrived.
BgDataVisible(current_time) ==
    SelectSeq(Indices(bg_data),
              LAMBDA i : ToPeriodM(bg_data[i]) <= ToPeriodM(current_time))

FadeIn(current_time, imageDate) ==
    IF ToPeriodM(imageDate) = ToPeriodM(current_time)
    THEN MonthProgress(current_time)
    ELSE <<1, 1>>

\* The linear decay stretched over twelve months instead of six.
FadeOutTwelveMonths(current_time, imageDate) ==
    LET months_old == <<current_time - imageDate, 30>>
    IN  Clip(OneMinus(<<months_old[1], months_old[2] * 12>>), MIN_FADE, <<1, 1>>)

FadeOut(current_time, imageDate) ==
    LET months_old == <<current_time - imageDate, 30>>
    IN  Clip(OneMinus(<<months_old[1], months_old[2] * 6>>), MIN_FADE, <<1, 1>>)

FinalAlpha(current_time, imageDate) ==
    RatMul(RatMul(FadeIn(current_time, imageDate), FadeOut(current_time, imageDate)),
           <<1, 2>>)

FadeInAlphas(current_time) ==
    LET visible == BgDataVisible(current_time)
    IN  [k \in 1..Len(visible) |-> FadeIn(current_time, bg_data[visible[k]])]

FadeOutAlphas(current_time) ==
    LET visible == BgDataVisible(current_time)
    IN  [k \in 1..Len(visible) |-> FadeOut(current_time, bg_data[visible[k]])]

\* What bg_sc holds after update(frame), given what it held before.
BgScatter(current_time, old) ==
    LET visible == BgDataVisible(current_time)
    IN  IF bg_data = <<>> \/ visible = <<>> THEN old
        ELSE [offsets |-> visible,
              array   |-> [k \in 1..Len(visible) |-> Year(bg_data[visible[k]])],
              alpha   |-> [k \in 1..Len(visible) |->
                              FinalAlpha(current_time, bg_data[visible[k]])],
              alpha_is_array |-> TRUE]

---------------------------------------------------------------------------
(* update(frame): the foreground accumulator. *)

\* gdf.loc[lo:hi] on the sorted index: both ends are included.
\* The slice with its upper end left out.
LocSliceOpenEnd(lo, hi) ==
    SelectSeq(Indices(df), LAMBDA i : lo <= df[i] /\ df[i] < hi)

LocSlice(lo, hi) ==
    SelectSeq(Indices(df), LAMBDA i : lo <= df[i] /\ df[i] <= hi)

\* gdf.loc[:hi]
LocUpTo(hi) == SelectSeq(Indices(df), LAMBDA i : df[i] <= hi)

Accumulator(points, dates, years) ==
    [points |-> points, dates |-> dates, years |-> years]

EmptyAccumulator == Accumulator(<<>>, <<>>, <<>>)

DatesOf(rows) == [k \in 1..Len(rows) |-> df[rows[k]]]
YearsOfRows(rows) == [k \in 1..Len(rows) |-> Year(df[rows[k]])]

\* The three lists after update(f), given the three lists before.
Ingest(f, acc) ==
    LET current_time == date_range[f + 1]
    IN  IF f = 0
        THEN LET data == LocUpTo(current_time)
             IN  IF data # <<>>
                 THEN Accumulator(data, DatesOf(data), YearsOfRows(data))
                 ELSE acc
        ELSE LET new_data == LocSlice(date_range[f], current_time)
             IN  IF new_data # <<>>
                 THEN Accumulator(acc.points \o new_data,
                                  acc.dates \o DatesOf(new_data),
                                  acc.years \o YearsOfRows(new_data))
                 ELSE acc

\* calculate_opacity: max(exp(-age_days / decay_days), MIN_OPACITY), kept as the
\* exponent's two terms and the floor.
CalculateOpacity(point_dates, current_time) ==
    [k \in 1..Len(point_dates) |->
        [age_days   |-> current_time - point_dates[k],
         decay_days |-> DECAY_YEARS * 365,
         floor      |-> MIN_OPACITY]]

\* What sc holds after update(frame), given what it held before.
FgScatter(current_time, acc, old) ==
    IF acc.points # <<>>
    THEN [offsets |-> acc.points, array |-> acc.years,
          alpha |-> CalculateOpacity(acc.dates, current_time),
          alpha_is_array |-> TRUE]
    ELSE old

---------------------------------------------------------------------------
(* update(frame), whole. *)

Update(f) ==
    LET current_time == date_range[f + 1]
        acc == Ingest(f, Accumulator(all_points, all_dates, all_years))
        drawn == bg_data # <<>> /\ BgDataVisible(current_time) # <<>>
    IN  /\ bg_alpha' = IF bg_data # <<>> THEN BgAlphaColumn(current_time, bg_alpha)
                       ELSE bg_alpha
        /\ fade_in_alphas' = IF drawn THEN FadeInAlphas(current_time) ELSE <<>>
        /\ fade_out_alphas' = IF drawn THEN FadeOutAlphas(current_time) ELSE <<>>
        /\ bg_sc' = BgScatter(current_time, bg_sc)
        /\ all_points' = acc.points
        /\ all_dates' = acc.dates
        /\ all_years' = acc.years
        /\ sc' = FgScatter(current_time, acc, sc)
        /\ text' = Strftime(current_time)
        /\ calls' = calls + 1
        /\ frame' = f
        /\ in_order' = IF frame = -1 THEN f = 0 ELSE in_order /\ f = frame + 1
        /\ prev_frame' = frame
        /\ prev_points' = all_points
        /\ last_call' = "update"

\* init(): both scatters emptied, the label cleared.
InitFunc ==
    /\ bg_sc' = [bg_sc EXCEPT !.offsets = <<>>, !.array = <<>>]
    /\ sc' = [sc EXCEPT !.offsets = <<>>, !.array = <<>>]
    /\ text' = ""
    /\ last_call' = "init"

---------------------------------------------------------------------------
(* The two output modes. *)

\* --final-frame: update(len(date_range) - 1), once.
ShowFinalFrame ==
    /\ pc = "ready"
    /\ run_mode = "final_frame"
    /\ Update(Len(date_range) - 1)
    /\ pc' = "done"
    /\ UNCHANGED <<run_mode, df, bg_data, date_ranges_json, date_range, cursor, passes>>

\* FuncAnimation draws init_func before the first frame of a pass.
AnimInit ==
    /\ pc = "ready"
    /\ run_mode # "final_frame"
    /\ InitFunc
    /\ pc' = "anim"
    /\ cursor' = 0
    /\ UNCHANGED <<run_mode, df, bg_data, date_ranges_json, date_range, all_points,
                   all_dates, all_years, bg_alpha, fade_in_alphas, fade_out_alphas,
                   passes, calls, frame, in_order, prev_frame, prev_points>>

\* FuncAnimation steps to the next frame of range(len(date_range)).
AnimFrame ==
    /\ pc = "anim"
    /\ cursor < Len(date_range)
    /\ Update(cursor)
    /\ cursor' = cursor + 1
    /\ passes' = IF cursor + 1 = Len(date_range) THEN passes + 1 ELSE passes
    /\ UNCHANGED <<pc, run_mode, df, bg_data, date_ranges_json, date_range>>

\* Shown (not saved), the animation repeats: init_func again, then frame 0.
AnimRepeat ==
    /\ pc = "anim"
    /\ run_mode = "show"
    /\ cursor = Len(date_range)
    /\ passes < MaxPasses
    /\ InitFunc
    /\ cursor' = 0
    /\ UNCHANGED <<pc, run_mode, df, bg_data, date_ranges_json, date_range, all_points,
                   all_dates, all_years, bg_alpha, fade_in_alphas, fade_out_alphas,
                   passes, calls, frame, in_order, prev_frame, prev_points>>

\* update called directly with any frame index, as a re-entrant caller may.
UpdateCall(f) ==
    /\ pc = "ready"
    /\ calls < MaxCalls
    /\ Update(f)
    /\ UNCHANGED <<pc, run_mode, df, bg_data, date_ranges_json, date_range, cursor,
                   passes>>

Next ==
    \/ WriteDateRanges
    \/ BuildTimeline
    \/ ShowFinalFrame
    \/ AnimInit
    \/ AnimFrame
    \/ AnimRepeat

Spec == Init /\ [][Next]_vars

NextSummary == WriteDateRanges \/ BuildTimeline

SpecSummary == InitSummary /\ [][NextSummary]_vars

NextReentrant ==
    \/ WriteDateRanges
    \/ BuildTimeline
    \/ \E f \in 0..(Len(date_range) - 1) : UpdateCall(f)

SpecReentrant == InitReentrant /\ [][NextReentrant]_vars

---------------------------------------------------------------------------
(* Properties. *)

\* The last thing drawn was an update call.
Updated == last_call = "update"

\* The date of the frame the last update call drew.
CurrentTime == date_range[frame + 1]

LastFrame == Len(date_range) - 1

AllDates == Range(df) \cup Range(bg_data)
MinDate == CHOOSE t \in AllDates : \A u \in AllDates : t <= u
MaxDate == CHOOSE t \in AllDates : \A u \in AllDates : u <= t

RECURSIVE Stream(_)
\* The accumulator after update(0), ..., update(k) from the empty lists.
Stream(k) ==
    IF k = 0 THEN Ingest(0, EmptyAccumulator) ELSE Ingest(k, Stream(k - 1))

IsPrefix(s, t) == Len(s) <= Len(t) /\ SubSeq(t, 1, Len(s)) = s

\* The background records a scatter draws, each with its opacity.
Drawn(scatter) ==
    {<<scatter.offsets[k],
       IF scatter.alpha_is_array THEN scatter.alpha[k] ELSE scatter.alpha[1]>> :
        k \in DOMAIN scatter.offsets}

\* C1: in a run update(0), update(1), ..., after frame i the accumulated lists
\* hold each input record with timestamp <= date[i] exactly once: the size never
\* shrinks and is the full record count at the terminal frame.
C1_EachRecordOnce ==
    (Updated /\ in_order) =>
        /\ all_points = LocUpTo(CurrentTime)
        /\ Len(all_points) >= Len(prev_points)
        /\ (frame = LastFrame => Len(all_points) = Len(df))

\* C2: update(i) called twice in a row leaves the accumulated list as long as
\* one call left it.
C2_UpdateIdempotent ==
    (Updated /\ prev_frame = frame) => Len(all_points) = Len(prev_points)

\* C3: the run that draws only the terminal frame ends with the accumulated
\* records of the run that streams every frame in order, which are all the
\* input records.
C3_FinalFrameAsStream ==
    (pc = "done" /\ run_mode = "final_frame") =>
        /\ Range(all_points) = Range(Stream(LastFrame).points)
        /\ Range(all_points) = DOMAIN df

\* C4: a background record of the current frame's month fades in by
\* (current_date - month_start) / (number of days of the month).
C4_FadeInByMonthLength ==
    Updated =>
        \A k \in DOMAIN fade_in_alphas :
            LET imageDate == bg_data[BgDataVisible(CurrentTime)[k]]
            IN  ToPeriodM(imageDate) = ToPeriodM(CurrentTime) =>
                    RatEq(fade_in_alphas[k],
                          <<CurrentTime - MonthStart(CurrentTime),
                            DaysInMonth(Year(CurrentTime), Month(CurrentTime))>>)

\* C5: the timeline is the consecutive days from the earliest to the latest date
\* of the foreground timestamps and, when present, the background image dates;
\* its length is (max - min) + 1, and one frame when max = min.
C5_TimelineDaily ==
    pc \notin {"loaded", "ranges"} =>
        /\ Len(date_range) = (MaxDate - MinDate) + 1
        /\ date_range[1] = MinDate
        /\ date_range[Len(date_range)] = MaxDate
        /\ \A i \in 1..(Len(date_range) - 1) : date_range[i + 1] = date_range[i] + 1
        /\ (MinDate = MaxDate => Len(date_range) = 1)

C5_Witness ==
    /\ pc = "ready"
    /\ bg_data # <<>>
    /\ SeqMin(bg_data) < SeqMin(df)
    /\ SeqMax(bg_data) < SeqMax(df)
    /\ Len(date_range) > 1

\* C6: in a run update(0), update(1), ..., a foreground record is accumulated at
\* a frame exactly when the frame's date has reached its timestamp, and the
\* lists only grow at their end.
C6_VisibleFromItsDate ==
    (Updated /\ in_order) =>
        /\ \A i \in DOMAIN df : (i \in Range(all_points)) <=> (df[i] <= CurrentTime)
        /\ IsPrefix(prev_points, all_points)

C6_Witness ==
    /\ Updated
    /\ in_order
    /\ frame >= 2
    /\ \E i \in DOMAIN df : df[i] < CurrentTime /\ i \in Range(all_points)
    /\ \E j \in DOMAIN df : df[j] > CurrentTime /\ j \notin Range(all_points)

\* C7: the fade-out factor of a visible background record is within [0.1, 1],
\* is 1 on the record's image date, is the floor 0.1 once six calendar months
\* have passed, and is no larger than it was the day before.
C7_FadeOutRange ==
    Updated =>
        \A k \in DOMAIN fade_out_alphas :
            LET imageDate == bg_data[BgDataVisible(CurrentTime)[k]]
                fade == fade_out_alphas[k]
            IN  /\ RatLE(<<1, 10>>, fade)
                /\ RatLE(fade, <<1, 1>>)
                /\ (CurrentTime = imageDate => RatEq(fade, <<1, 1>>))
                /\ (ToPeriodM(CurrentTime) - ToPeriodM(imageDate) >= 6 =>
                        RatEq(fade, <<1, 10>>))
                /\ (CurrentTime > imageDate =>
                        RatLE(fade, FadeOut(CurrentTime - 1, imageDate)))

C7_Witness ==
    /\ Updated
    /\ \E k \in DOMAIN fade_out_alphas :
        LET imageDate == bg_data[BgDataVisible(CurrentTime)[k]]
        IN  /\ ToPeriodM(CurrentTime) - ToPeriodM(imageDate) = 6
            /\ Day(CurrentTime) = 1
            /\ RatEq(fade_out_alphas[k], <<1, 10>>)

SummaryExample ==
    <<DaysFromCivil(2018, 1, 5), DaysFromCivil(2018, 11, 20),
      DaysFromCivil(2020, 3, 1), DaysFromCivil(2020, 3, 2)>>

\* C8: the summary has one entry per calendar year of the foreground
\* timestamps, keyed by the year as a string, holding that year's earliest and
\* latest foreground date as YYYY-MM-DD; background records add nothing.
C8_YearSummary ==
    pc # "loaded" =>
        /\ DOMAIN date_ranges_json = {StrYear(Year(df[i])) : i \in DOMAIN df}
        /\ Cardinality(DOMAIN date_ranges_json) = Cardinality({Year(df[i]) : i \in DOMAIN df})
        /\ \A i \in DOMAIN df :
            LET entry == date_ranges_json[StrYear(Year(df[i]))]
                same  == {j \in DOMAIN df : Year(df[j]) = Year(df[i])}
            IN  /\ \E j \in same : /\ entry.earliest = Strftime(df[j])
                                   /\ \A l \in same : df[j] <= df[l]
                /\ \E j \in same : /\ entry.latest = Strftime(df[j])
                                   /\ \A l \in same : df[l] <= df[j]
        /\ (df = SummaryExample =>
                date_ranges_json =
                    [k \in {"2018", "2020"} |->
                        IF k = "2018"
                        THEN [earliest |-> "2018-01-05", latest |-> "2018-11-20"]
                        ELSE [earliest |-> "2020-03-01", latest |-> "2020-03-02"]])

C8_Witness ==
    /\ pc = "ranges"
    /\ df = SummaryExample
    /\ bg_data # <<>>
    /\ DOMAIN date_ranges_json = {"2018", "2020"}

\* C9: the background records drawn after update(f), and their opacities, are
\* those that update(f) draws on the untouched scatter, whatever was called
\* before.
C9_BackgroundMemoryless ==
    Updated => Drawn(bg_sc) = Drawn(BgScatter(CurrentTime, InitialBgSc))

\* C10: after update(0), in any state, the accumulated lists are exactly the
\* foreground records with timestamp <= date[0] (none, when there is none).
C10_FrameZeroRestarts ==
    (Updated /\ frame = 0) =>
        /\ all_points = LocUpTo(date_range[1])
        /\ all_dates = DatesOf(LocUpTo(date_range[1]))
        /\ all_years = YearsOfRows(LocUpTo(date_range[1]))

====
